---------------------------- MODULE Spec2Model ----------------------------
(***************************************************************************)
(* Recall-Watch ingestion core: src/pipelines/extract.py (Fetcher),        *)
(* src/pipelines/load.py (Identity & Mapper, Upserter) and                 *)
(* src/pipelines/flow.py (Orchestrator).                                   *)
(*                                                                         *)
(* Conventions.                                                            *)
(*  - A Python str is a sequence of one-character strings; the token "^2"  *)
(*    stands for U+00B2 (SUPERSCRIPT TWO), a character for which           *)
(*    str.isdigit() is True and int() raises ValueError.                   *)
(*  - A JSON / column value is a tagged tuple: <<"str", chars>>,           *)
(*    <<"int", n>>, <<"date", y, m, d>>, <<"ts", t>> or NULL.              *)
(*  - A RawRecord is the sequence of <<field, value>> pairs in the order   *)
(*    the source serialised them (a Python dict keeps insertion order);    *)
(*    field names are pairwise distinct.                                   *)
(*  - sha256 is modelled as collision free: the digest of s is s itself    *)
(*    behind the marker character "#".                                     *)
(***************************************************************************)
EXTENDS Integers, Sequences, FiniteSets, TLC

-----------------------------------------------------------------------------
(* Python values                                                           *)

NULL == <<"null">>

Str(s) == <<"str", s>>

IsStr(v) == v[1] = "str"

Chars(v) == v[2]

EmptyStr == Str(<<>>)

\* A JSON array.
List(xs) == <<"list", xs>>

\* Python truthiness of None, of a str and of a list: None, "" and [] are
\* falsy.
Truthy(v) == v # NULL /\ v # EmptyStr /\ v # List(<<>>)

\* Python `a or b`: a when a is truthy, else b (b is returned even when falsy).
PyOr(a, b) == IF Truthy(a) THEN a ELSE b

Whitespace == {" "}

RECURSIVE LStripChars(_)
LStripChars(s) ==
  IF s # <<>> /\ Head(s) \in Whitespace THEN LStripChars(Tail(s)) ELSE s

RECURSIVE RStripChars(_)
RStripChars(s) ==
  IF s # <<>> /\ s[Len(s)] \in Whitespace
  THEN RStripChars(SubSeq(s, 1, Len(s) - 1))
  ELSE s

\* str.strip()
Strip(v) == Str(RStripChars(LStripChars(Chars(v))))

LowerLetters == <<"a", "b", "c", "d", "e", "f", "g", "h", "i", "j", "k", "l", "m",
                  "n", "o", "p", "q", "r", "s", "t", "u", "v", "w", "x", "y", "z">>

UpperLetters == <<"A", "B", "C", "D", "E", "F", "G", "H", "I", "J", "K", "L", "M",
                  "N", "O", "P", "Q", "R", "S", "T", "U", "V", "W", "X", "Y", "Z">>

UpperChar(c) ==
  IF \E i \in 1..Len(LowerLetters) : LowerLetters[i] = c
  THEN UpperLetters[CHOOSE i \in 1..Len(LowerLetters) : LowerLetters[i] = c]
  ELSE c

\* str.upper()
Upper(v) == Str([i \in 1..Len(Chars(v)) |-> UpperChar(Chars(v)[i])])

DecimalDigits == <<"0", "1", "2", "3", "4", "5", "6", "7", "8", "9">>

IsDecimal(c) == \E i \in 1..10 : DecimalDigits[i] = c

DigitVal(c) == (CHOOSE i \in 1..10 : DecimalDigits[i] = c) - 1

\* Characters with Numeric_Type=Digit that are not decimal digits.
NonDecimalDigits == {"^2"}

\* str.isdigit(): non-empty and every character is a digit.
IsDigitStr(s) ==
  /\ s # <<>>
  /\ \A i \in 1..Len(s) : IsDecimal(s[i]) \/ s[i] \in NonDecimalDigits

AllDecimal(s) == s # <<>> /\ \A i \in 1..Len(s) : IsDecimal(s[i])

RECURSIVE DecimalValue(_)
DecimalValue(s) ==
  IF s = <<>> THEN 0
  ELSE 10 * DecimalValue(SubSeq(s, 1, Len(s) - 1)) + DigitVal(s[Len(s)])

-----------------------------------------------------------------------------
(* RawRecord access                                                        *)

FieldsOf(r) == {r[i][1] : i \in 1..Len(r)}

\* dict.get(f): the value stored under f, None when f is no key of r.
Get(r, f) ==
  IF f \in FieldsOf(r)
  THEN r[CHOOSE i \in 1..Len(r) : r[i][1] = f][2]
  ELSE NULL

\* `f in record`
HasField(r, f) == f \in FieldsOf(r)

-----------------------------------------------------------------------------
(* load.py: _sha256_hex, _parse_date                                       *)

\* The hex digest of s, collision free: "#" followed by s.
_sha256_hex(s) == <<"#">> \o s

IsLeap(y) == (y % 4 = 0 /\ y % 100 # 0) \/ y % 400 = 0

DaysInMonth(y, m) ==
  IF m = 2 THEN (IF IsLeap(y) THEN 29 ELSE 28)
  ELSE IF m \in {4, 6, 9, 11} THEN 30 ELSE 31

\* strptime's pattern for %m: 1[0-2] | 0[1-9] | [1-9]
MonthPattern(s) ==
  \/ Len(s) = 2 /\ s[1] = "1" /\ s[2] \in {"0", "1", "2"}
  \/ Len(s) = 2 /\ s[1] = "0" /\ IsDecimal(s[2]) /\ s[2] # "0"
  \/ Len(s) = 1 /\ IsDecimal(s[1]) /\ s[1] # "0"

\* strptime's pattern for %d: 3[0-1] | [1-2]\d | 0[1-9] | [1-9] | " "[1-9]
DayPattern(s) ==
  \/ Len(s) = 2 /\ s[1] = "3" /\ s[2] \in {"0", "1"}
  \/ Len(s) = 2 /\ s[1] \in {"1", "2"} /\ IsDecimal(s[2])
  \/ Len(s) = 2 /\ s[1] \in {"0", " "} /\ IsDecimal(s[2]) /\ s[2] # "0"
  \/ Len(s) = 1 /\ IsDecimal(s[1]) /\ s[1] # "0"

\* The ways s splits as YYYY-m-d with every part matching its pattern.
YmdSplits(s) ==
  {ml \in {1, 2} :
     /\ Len(s) >= 4 + 1 + ml + 1 + 1
     /\ Len(s) <= 4 + 1 + ml + 1 + 2
     /\ AllDecimal(SubSeq(s, 1, 4))
     /\ s[5] = "-"
     /\ MonthPattern(SubSeq(s, 6, 5 + ml))
     /\ s[6 + ml] = "-"
     /\ DayPattern(SubSeq(s, 7 + ml, Len(s)))}

\* datetime.strptime(s, "%Y-%m-%d").date(); NULL stands for the ValueError
\* that _parse_date catches.
StrptimeYmd(s) ==
  IF YmdSplits(s) = {} THEN NULL
  ELSE LET ml == CHOOSE k \in YmdSplits(s) : TRUE
           y  == DecimalValue(SubSeq(s, 1, 4))
           m  == DecimalValue(SubSeq(s, 6, 5 + ml))
           d  == DecimalValue(LStripChars(SubSeq(s, 7 + ml, Len(s))))
       IN  IF y >= 1 /\ d <= DaysInMonth(y, m)
           THEN <<"date", y, m, d>>
           ELSE NULL

Min(a, b) == IF a <= b THEN a ELSE b

_parse_date(value) ==
  IF value = NULL THEN NULL
  ELSE LET s == Chars(Strip(value))
       IN  IF s = <<>> THEN NULL
           ELSE StrptimeYmd(SubSeq(s, 1, Min(10, Len(s))))


-----------------------------------------------------------------------------
(* load.py: primary key generation                                         *)

Lit_nhtsa == <<"n", "h", "t", "s", "a", ":">>

Lit_odi == <<"o", "d", "i", ":">>

Lit_hash == <<"h", "a", "s", "h", ":">>

Lit_None == <<"N", "o", "n", "e">>

SOURCE_SOCRATA == Str(<<"s", "o", "c", "r", "a", "t", "a">>)

SOURCE_NHTSA == Str(<<"n", "h", "t", "s", "a">>)

Bar == <<"|">>

\* recall_pk_from_record with the fallback hash taken over the record's values
\* in the order the record lists them.
recall_pk_hashing_in_field_order(r) ==
  LET nhtsa_id == Strip(PyOr(PyOr(Get(r, "nhtsa_id"), Get(r, "NHTSA_ID")), EmptyStr))
      RECURSIVE Joined(_)
      Joined(i) ==
        IF i > Len(r) THEN <<>>
        ELSE Chars(PyOr(r[i][2], EmptyStr)) \o Bar \o Joined(i + 1)
  IN  IF Truthy(nhtsa_id)
      THEN Str(Lit_nhtsa \o Chars(nhtsa_id))
      ELSE Str(Lit_hash \o _sha256_hex(Joined(1)))

recall_pk_from_record(r) ==
  LET nhtsa_id == Strip(PyOr(PyOr(Get(r, "nhtsa_id"), Get(r, "NHTSA_ID")), EmptyStr))
      manufacturer ==
        Upper(Strip(PyOr(PyOr(Get(r, "manufacturer"), Get(r, "make")), EmptyStr)))
      component == Upper(Strip(PyOr(Get(r, "component"), EmptyStr)))
      report_date ==
        Strip(PyOr(PyOr(Get(r, "report_received_date"), Get(r, "report_date")),
                   EmptyStr))
      subject == Strip(PyOr(Get(r, "subject"), EmptyStr))
      base == Chars(manufacturer) \o Bar \o Chars(component) \o Bar
                \o Chars(report_date) \o Bar \o Chars(subject)
  IN  IF Truthy(nhtsa_id)
      THEN Str(Lit_nhtsa \o Chars(nhtsa_id))
      ELSE Str(Lit_hash \o _sha256_hex(base))

complaint_pk_from_record(r) ==
  LET odi == Strip(PyOr(PyOr(PyOr(PyOr(Get(r, "ODINumber"), Get(r, "odi_number")),
                                  Get(r, "odiNumber")),
                             Get(r, "complaint_number")),
                        EmptyStr))
      make == Upper(Strip(PyOr(PyOr(Get(r, "Make"), Get(r, "make")), EmptyStr)))
      model == Upper(Strip(PyOr(PyOr(Get(r, "Model"), Get(r, "model")), EmptyStr)))
      year == Strip(PyOr(PyOr(PyOr(Get(r, "ModelYear"), Get(r, "model_year")),
                              Get(r, "Year")),
                         EmptyStr))
      comp == Upper(Strip(PyOr(PyOr(Get(r, "Component"), Get(r, "component")),
                               EmptyStr)))
      received == Strip(PyOr(PyOr(Get(r, "DateReceived"), Get(r, "date_received")),
                             EmptyStr))
      summary == Strip(PyOr(PyOr(PyOr(Get(r, "Summary"), Get(r, "summary")),
                                 Get(r, "Description")),
                            EmptyStr))
      base == Chars(make) \o Bar \o Chars(model) \o Bar \o Chars(year) \o Bar
                \o Chars(comp) \o Bar \o Chars(received) \o Bar \o Chars(summary)
  IN  IF Truthy(odi)
      THEN Str(Lit_odi \o Chars(odi))
      ELSE Str(Lit_hash \o _sha256_hex(base))

-----------------------------------------------------------------------------
(* load.py: row mappers                                                    *)

RAW_RECALLS_COLS ==
  <<"recall_pk", "source", "source_id", "make", "model", "model_year",
    "component", "report_date", "source_updated_at", "ingested_at", "raw_payload">>

RAW_COMPLAINTS_COLS ==
  <<"complaint_pk", "source", "source_id", "odi_number", "make", "model",
    "model_year", "component", "incident_date", "received_date", "state",
    "source_updated_at", "ingested_at", "raw_payload">>

\* The outcome of a call: the value it returned, or the class of the
\* exception it raised.
Returned(x) == <<"return", x>>

Raised(cls) == <<"raise", cls>>

IsReturned(o) == o[1] = "return"

IsRaised(o) == o[1] = "raise"

Value(o) == o[2]

\* json.dumps(r): the record, fields in their order.
JsonDumps(r) == <<"json", r>>

\* datetime.utcnow() read while the clock shows t.
UtcNow(t) == <<"ts", t>>

\* `str(v) if v is not None else None` for a str or None v.
StrOrNone(v) == v

map_recall_row(r, t) ==
  LET pk == recall_pk_from_record(r)
      manufacturer == PyOr(Get(r, "manufacturer"), Get(r, "make"))
      component == Get(r, "component")
      nhtsa_id == Get(r, "nhtsa_id")
      report_date ==
        _parse_date(PyOr(Get(r, "report_received_date"), Get(r, "report_date")))
  IN  Returned(
        [recall_pk         |-> pk,
         source            |-> SOURCE_SOCRATA,
         source_id         |-> StrOrNone(nhtsa_id),
         make              |-> StrOrNone(manufacturer),
         model             |-> NULL,
         model_year        |-> NULL,
         component         |-> StrOrNone(component),
         report_date       |-> report_date,
         source_updated_at |-> NULL,
         ingested_at       |-> UtcNow(t),
         raw_payload       |-> JsonDumps(r)])

\* `int(year) if str(year).strip().isdigit() else None`:
\* str(None) is "None"; int() accepts decimal digits only and raises
\* ValueError on any other character.
YearColumn(year) ==
  LET s == IF year = NULL THEN Lit_None ELSE Chars(Strip(year))
  IN  IF IsDigitStr(s)
      THEN (IF AllDecimal(s) THEN <<"int", DecimalValue(s)>> ELSE Raised("ValueError"))
      ELSE NULL

map_complaint_row(r, t) ==
  LET pk == complaint_pk_from_record(r)
      odi == PyOr(Get(r, "ODINumber"), Get(r, "odi_number"))
      make == PyOr(Get(r, "Make"), Get(r, "make"))
      model == PyOr(Get(r, "Model"), Get(r, "model"))
      year == PyOr(PyOr(Get(r, "ModelYear"), Get(r, "model_year")), Get(r, "Year"))
      component == PyOr(Get(r, "Component"), Get(r, "component"))
      incident_date == _parse_date(PyOr(Get(r, "IncidentDate"), Get(r, "incident_date")))
      received_date == _parse_date(PyOr(Get(r, "DateReceived"), Get(r, "date_received")))
      state == PyOr(Get(r, "State"), Get(r, "state"))
  IN  IF IsRaised(YearColumn(year))
      THEN YearColumn(year)
      ELSE Returned(
             [complaint_pk      |-> pk,
              source            |-> SOURCE_NHTSA,
              source_id         |-> StrOrNone(odi),
              odi_number        |-> StrOrNone(odi),
              make              |-> StrOrNone(make),
              model             |-> StrOrNone(model),
              model_year        |-> YearColumn(year),
              component         |-> StrOrNone(component),
              incident_date     |-> incident_date,
              received_date     |-> received_date,
              state             |-> StrOrNone(state),
              source_updated_at |-> NULL,
              ingested_at       |-> UtcNow(t),
              raw_payload       |-> JsonDumps(r)])

\* The key and the row of a record of category cat: the recall or the
\* complaint function.
derive_key(cat, r) ==
  IF cat = "recall" THEN recall_pk_from_record(r) ELSE complaint_pk_from_record(r)

map_row(cat, r, t) ==
  IF cat = "recall" THEN map_recall_row(r, t) ELSE map_complaint_row(r, t)

PkColumn(cat) == IF cat = "recall" THEN "recall_pk" ELSE "complaint_pk"

-----------------------------------------------------------------------------
(* Bounds and input universes                                              *)

\* The wall clock runs from 0 to MaxClock.
MaxClock == 2

\* A RawRecord given to the mappers carries at most MaxFields fields.
MaxFields == 2

S_blank == Str(<<" ">>)

S_t == Str(<<" ", "t">>)

S_c == Str(<<"c">>)

S_id7 == Str(<<" ", "7", " ">>)

S_timestamp ==
  Str(<<"2", "0", "2", "4", "-", "0", "3", "-", "1", "5", "T", "0", "0", ":",
        "0", "0", ":", "0", "0", ".", "0", "0", "0">>)

S_not_a_date == Str(<<"n", "o", "t", "-", "a", "-", "d", "a", "t", "e">>)

S_feb30 == Str(<<"2", "0", "2", "4", "-", "0", "2", "-", "3", "0">>)

S_2024 == Str(<<"2", "0", "2", "4">>)

S_abc == Str(<<"a", "b", "c">>)

S_sup2 == Str(<<"2", "^2">>)

RecallFields ==
  <<"nhtsa_id", "NHTSA_ID", "manufacturer", "make", "component",
    "report_received_date", "report_date", "report_receive_date", "subject">>

ComplaintFields ==
  <<"ODINumber", "odi_number", "odiNumber", "complaint_number", "Make",
    "ModelYear", "Year", "DateReceived", "IncidentDate", "Summary">>

DateFieldNames ==
  {"report_received_date", "report_date", "report_receive_date",
   "DateReceived", "IncidentDate"}

YearFieldNames == {"ModelYear", "Year"}

\* The values a source may store under field f.
FieldVals(f) ==
  IF f \in DateFieldNames THEN {S_timestamp, S_not_a_date, S_feb30}
  ELSE IF f \in YearFieldNames THEN {S_2024, S_abc, S_sup2}
  ELSE IF f \in {"nhtsa_id", "NHTSA_ID", "ODINumber", "odi_number", "odiNumber",
                 "complaint_number"}
       THEN {NULL, EmptyStr, S_blank, S_id7}
  ELSE IF f \in {"manufacturer", "make", "Make"} THEN {NULL, EmptyStr, S_t}
  ELSE {NULL, S_blank, S_c}

\* The records over the field list fs with at most MaxFields fields, each
\* listed in the order of fs.
RecordsOver(fs) ==
  UNION {
    UNION {
      {[i \in 1..n |-> <<fs[idx[i]], val[i]>>] :
         val \in {v \in [1..n -> UNION {FieldVals(fs[k]) : k \in 1..Len(fs)}] :
                    \A i \in 1..n : v[i] \in FieldVals(fs[idx[i]])}}
      : idx \in {ix \in [1..n -> 1..Len(fs)] : \A i \in 1..(n - 1) : ix[i] < ix[i + 1]}}
    : n \in 0..MaxFields}

\* Every reordering of the fields of r.
Reorderings(r) ==
  {[i \in 1..Len(r) |-> r[p[i]]] :
     p \in {q \in [1..Len(r) -> 1..Len(r)] :
              \A i, j \in 1..Len(r) : i # j => q[i] # q[j]}}

-----------------------------------------------------------------------------
(* State                                                                   *)

NONE == <<"none">>

VARIABLES
  now,    \* the wall clock read by datetime.utcnow()
  mcat,   \* mapper harness: the category of the record, "recall" or "complaint"
  mrec,   \* mapper harness: the RawRecord
  mkey,   \* mapper harness: the key derive_key returned, NONE before the call
  mrow,   \* mapper harness: the outcome of map_row, NONE before the call
  table,  \* the store: for each table the set of its committed rows
  ld,     \* for each process, the frame of its load_recalls / load_complaints call
  out,    \* for each process, the lines it has logged or printed
  lastWritten,  \* history: for each table and key, the row last committed under the key
  ft,     \* the frame of the _fetch_socrata call
  http,   \* history: the requests sent to the two APIs, in order
  fl,     \* the frame of flow.py's __main__ and run_ingest
  env     \* the environment variables the process has read, with their values

mapVars == <<mcat, mrec, mkey, mrow>>

loadVars == <<table, ld, lastWritten>>

fetchVars == <<ft, http>>

flowVars == <<fl, env>>

vars == <<now, mapVars, loadVars, out, fetchVars, flowVars>>

\* What the mapper harness leaves alone.
mapOthers == <<loadVars, out, fetchVars, flowVars>>

\* What the loader leaves alone.
loadOthers == <<now, mapVars, fetchVars, flowVars>>

\* What the fetcher leaves alone.
fetchOthers == <<now, mapVars, loadVars, flowVars>>

\* Time passes.
Tick ==
  /\ now < MaxClock
  /\ now' = now + 1
  /\ UNCHANGED <<mapVars, loadVars, out, fetchVars, flowVars>>

\* logging.basicConfig(level=logging.INFO): the root logger's handler writes
\* the records of level INFO and above, and drops the others.
LevelNo(level) ==
  CASE level = "DEBUG" -> 10
    [] level = "INFO" -> 20
    [] level = "WARNING" -> 30
    [] level = "ERROR" -> 40

\* The same with the root logger left at its default level, WARNING.
EmittedAtDefaultLevel(level, line) ==
  IF LevelNo(level) >= LevelNo("WARNING") THEN <<line>> ELSE <<>>

\* The lines a logger call of the given level adds to the output.
Emitted(level, line) ==
  IF LevelNo(level) >= LevelNo("INFO") THEN <<line>> ELSE <<>>

\* logger.info(line)
Info(line) == Emitted("INFO", line)

\* Process p writes lines.
Write(p, lines) == out' = [out EXCEPT ![p] = @ \o lines]

\* Process p calls logger.info(line).
Log(p, line) == Write(p, Info(line))

-----------------------------------------------------------------------------
(* load.py: the store and _upsert                                          *)

TableNames == {"raw.recalls", "raw.complaints"}

ColsOf(t) == IF t = "raw.recalls" THEN RAW_RECALLS_COLS ELSE RAW_COMPLAINTS_COLS

ConflictCol(t) == IF t = "raw.recalls" THEN "recall_pk" ELSE "complaint_pk"

CategoryOf(t) == IF t = "raw.recalls" THEN "recall" ELSE "complaint"

\* execute_values(cur, sql, rows, page_size=500): the rows of one call go to
\* the server in statements of page_size rows each.  The model scales the
\* 500 of load.py:252 down to 2.
page_size == 2

\* update_cols of _upsert: every column but the conflict column.
UpdateCols(cols, conflict_col) ==
  {cols[i] : i \in 1..Len(cols)} \ {conflict_col}

\* ON CONFLICT (conflict_col): the rows of view the proposed row conflicts
\* with are those with its value in the conflict column.
ConflictingOnWholeRow(view, excluded, conflict_col) ==
  {y \in view : y = excluded}

Conflicting(view, excluded, conflict_col) ==
  {y \in view : y[conflict_col] = excluded[conflict_col]}

\* The update as SET c = COALESCE(EXCLUDED.c, c): a null never overwrites.
OnConflictCoalesce(existing, excluded, cols, conflict_col) ==
  [c \in DOMAIN existing |->
     IF c \in UpdateCols(cols, conflict_col) /\ excluded[c] # NULL
     THEN excluded[c]
     ELSE existing[c]]

\* ON CONFLICT (conflict_col) DO UPDATE SET c = EXCLUDED.c for every c of
\* update_cols: the stored row after the update by the proposed row.
OnConflictUpdate(existing, excluded, cols, conflict_col) ==
  [c \in DOMAIN existing |->
     IF c \in UpdateCols(cols, conflict_col) THEN excluded[c] ELSE existing[c]]

\* The rows a transaction sees: the committed rows it has not replaced, and
\* the rows it has written.
ViewOf(committed, del, add) == (committed \ del) \cup add

\* The same with the connection in autocommit mode.
AfterExecuteAutocommit(committed, del, add) == (committed \ del) \cup add

\* What a statement executed on a connection that is not in autocommit mode
\* makes visible to others: nothing before the commit.
AfterExecute(committed, del, add) == committed

\* A commit that leaves in the table the rows of the transaction only.
AfterCommitReplacingTable(committed, del, add) == add

\* conn.commit(): the transaction's writes replace the rows it replaced.
AfterCommit(committed, del, add) == (committed \ del) \cup add

IdleFrame ==
  [pc       |-> "idle",
   tab      |-> "raw.recalls",
   recs     |-> <<>>,     \* the records given to the call
   rows     |-> <<>>,     \* the rows mapped from them
   pos      |-> 0,        \* rows executed so far
   stmtKeys |-> {},       \* keys inserted or updated by the statement in progress
   del      |-> {},       \* committed rows the open transaction has replaced
   add      |-> {},       \* rows the open transaction has written
   io       |-> <<>>,     \* what the call has asked of the store
   result   |-> NONE,     \* Returned(count) or Raised(class)
   before   |-> {},       \* history: the table's rows when the call began
   again    |-> FALSE]    \* history: the call repeats the previous call's input

LoadIdle ==
  /\ table = [t \in TableNames |-> {}]
  /\ ld = [p \in {1} |-> IdleFrame]
  /\ out = [p \in {1} |-> <<>>]
  /\ lastWritten = [t \in TableNames |-> <<>>]

R_id7_c ==
  <<<<"nhtsa_id", S_id7>>, <<"component", S_c>>,
    <<"report_received_date", S_timestamp>>>>

R_id7 == <<<<"NHTSA_ID", S_id7>>, <<"make", S_t>>>>

R_hash == <<<<"manufacturer", S_t>>, <<"report_receive_date", S_timestamp>>>>

C_id7_2024 == <<<<"ODINumber", S_id7>>, <<"ModelYear", S_2024>>>>

C_sup2 == <<<<"ModelYear", S_sup2>>>>

\* The records a source holds for each table.
SourceRecords(t) ==
  IF t = "raw.recalls" THEN {R_id7_c, R_id7, R_hash} ELSE {C_id7_2024, C_sup2}

\* map_row tabulated over the source's records and the clock's values.
MappedRow ==
  [t \in TableNames |->
     [r \in SourceRecords(t) |->
        [tm \in 0..MaxClock |-> map_row(CategoryOf(t), r, tm)]]]

\* The outcomes of mapping every record of recs for table t while the clock
\* shows tm.
MapAll(t, recs, tm) ==
  [i \in 1..Len(recs) |-> MappedRow[t][recs[i]][tm]]

\* load_recalls / load_complaints up to the connect: the list comprehension
\* maps every record; an exception of a mapper leaves the function.
LoadEntry(p, t, recs, rep, tm) ==
  /\ LET outcomes == MapAll(t, recs, tm)
         bad == {i \in 1..Len(recs) : IsRaised(outcomes[i])}
         first == CHOOSE i \in bad : \A j \in bad : i <= j
     IN  IF bad # {}
         THEN ld' = [ld EXCEPT ![p] =
                [IdleFrame EXCEPT !.pc = "raised", !.tab = t, !.recs = recs,
                                  !.result = outcomes[first],
                                  !.before = table[t], !.again = rep]]
         ELSE ld' = [ld EXCEPT ![p] =
                [IdleFrame EXCEPT !.pc = "connect", !.tab = t, !.recs = recs,
                                  !.rows = [i \in 1..Len(recs) |-> Value(outcomes[i])],
                                  !.before = table[t], !.again = rep]]
  /\ UNCHANGED <<table, lastWritten>>

\* psycopg2.connect, then _upsert's test of `not rows`.
ConnectOf(p) ==
  /\ ld[p].pc = "connect"
  /\ \/ /\ ld[p].rows = <<>>
        /\ ld' = [ld EXCEPT ![p].pc = "returned", ![p].result = Returned(0),
                            ![p].io = Append(@, "connect")]
        /\ Log(p, <<"No rows to upsert into", ld[p].tab>>)
     \/ /\ ld[p].rows # <<>>
        /\ ld' = [ld EXCEPT ![p].pc = "execute", ![p].io = Append(@, "connect")]
        /\ UNCHANGED out
     \/ /\ ld' = [ld EXCEPT ![p].pc = "raised",
                            ![p].result = Raised("OperationalError"),
                            ![p].io = Append(@, "connect failed")]
        /\ UNCHANGED out
  /\ UNCHANGED <<table, lastWritten>>

\* The frame after the transaction is rolled back (the `with conn` block is
\* left by an exception of class cls).
RolledBack(f, cls) ==
  [f EXCEPT !.pc = "raised", !.result = Raised(cls), !.del = {}, !.add = {},
            !.stmtKeys = {}, !.io = Append(@, "rollback")]

\* The identity keys of table t that the open transaction of process q has
\* inserted or updated: the store keeps their rows locked until the
\* transaction ends.
LockedKeys(q, t) ==
  IF ld[q].pc \in {"execute", "commit"} /\ ld[q].tab = t
  THEN {y[ConflictCol(t)] : y \in ld[q].add}
  ELSE {}

\* The processes whose open transaction holds the row that the next row of
\* p's statement proposes: the statement of p waits for them to end.
WaitsFor(p) ==
  IF ld[p].pc = "execute"
  THEN {q \in DOMAIN ld \ {p} :
          ld[p].rows[ld[p].pos + 1][ConflictCol(ld[p].tab)]
            \in LockedKeys(q, ld[p].tab)}
  ELSE {}

\* The processes that those of S wait for, directly or not.
RECURSIVE WaitClosure(_)
WaitClosure(S) ==
  LET more == S \cup UNION {WaitsFor(q) : q \in S}
  IN  IF more = S THEN S ELSE WaitClosure(more)

\* The server takes the next row of the statement in progress; the first row
\* of every page_size rows opens a new statement.  The row waits while
\* another open transaction holds its key.
ExecRowOf(p) ==
  /\ ld[p].pc = "execute"
  /\ WaitsFor(p) = {}
  /\ LET f == ld[p]
         t == f.tab
         k == ConflictCol(t)
         x == f.rows[f.pos + 1]
         opens == f.pos % page_size = 0
         affected == IF opens THEN {} ELSE f.stmtKeys
         io1 == IF opens THEN Append(f.io, "execute") ELSE f.io
         hit == Conflicting(ViewOf(table[t], f.del, f.add), x, k)
         done == f.pos + 1 = Len(f.rows)
     IN  \/ /\ x[k] \in affected
            \* "ON CONFLICT DO UPDATE command cannot affect row a second time"
            /\ ld' = [ld EXCEPT ![p] =
                        RolledBack([f EXCEPT !.io = io1], "CardinalityViolation")]
            /\ UNCHANGED table
         \/ /\ x[k] \notin affected
            /\ ld' = [ld EXCEPT ![p] =
                 [f EXCEPT
                    !.pos = f.pos + 1,
                    !.stmtKeys = affected \cup {x[k]},
                    !.del = f.del \cup (hit \cap table[t]),
                    !.add = (f.add \ hit)
                              \cup (IF hit = {} THEN {x}
                                    ELSE {OnConflictUpdate(y, x, ColsOf(t), k) : y \in hit}),
                    !.io = io1,
                    !.pc = IF done THEN "commit" ELSE "execute"]]
            /\ table' = [table EXCEPT ![t] = AfterExecute(@, ld'[p].del, ld'[p].add)]
  /\ UNCHANGED <<out, lastWritten>>

\* The store fails (connection lost, statement rejected) while the
\* transaction is open, at a statement or at the commit.
DbFailOf(p) ==
  /\ ld[p].pc \in {"execute", "commit"}
  /\ ld' = [ld EXCEPT ![p] = RolledBack(ld[p], "OperationalError")]
  /\ UNCHANGED <<table, out, lastWritten>>

\* The store finds the statement of p in a cycle of waiting transactions and
\* ends it with "deadlock detected".
DeadlockOf(p) ==
  /\ ld[p].pc = "execute"
  /\ WaitsFor(p) # {}
  /\ p \in WaitClosure(WaitsFor(p))
  /\ ld' = [ld EXCEPT ![p] =
              RolledBack([ld[p] EXCEPT !.io = IF ld[p].pos % page_size = 0
                                              THEN Append(@, "execute") ELSE @],
                         "DeadlockDetected")]
  /\ UNCHANGED <<table, out, lastWritten>>

\* The last row of rows with key k.
LastWithKey(rows, col, k) ==
  rows[CHOOSE i \in 1..Len(rows) :
         /\ rows[i][col] = k
         /\ \A j \in (i + 1)..Len(rows) : rows[j][col] # k]

KeysOfRows(rows, col) == {rows[i][col] : i \in 1..Len(rows)}

\* conn.commit(), the log line and `return len(rows)`.
CommitOf(p) ==
  /\ ld[p].pc = "commit"
  /\ LET f == ld[p]
         t == f.tab
         k == ConflictCol(t)
         keys == KeysOfRows(f.rows, k)
     IN  /\ table' = [table EXCEPT ![t] = AfterCommit(@, f.del, f.add)]
         /\ ld' = [ld EXCEPT ![p] =
                     [f EXCEPT !.pc = "returned", !.result = Returned(Len(f.rows)),
                               !.del = {}, !.add = {}, !.stmtKeys = {},
                               !.io = Append(@, "commit")]]
         /\ Log(p, <<"Upserted rows into", Len(f.rows), t>>)
         /\ lastWritten' =
              [lastWritten EXCEPT ![t] =
                 [key \in (DOMAIN @) \cup keys |->
                    IF key \in keys THEN LastWithKey(f.rows, k, key) ELSE @[key]]]

Connect == \E p \in DOMAIN ld : ConnectOf(p) /\ UNCHANGED loadOthers

ExecRow == \E p \in DOMAIN ld : ExecRowOf(p) /\ UNCHANGED loadOthers

DbFail == \E p \in DOMAIN ld : DbFailOf(p) /\ UNCHANGED loadOthers

Commit == \E p \in DOMAIN ld : CommitOf(p) /\ UNCHANGED loadOthers

Deadlock == \E p \in DOMAIN ld : DeadlockOf(p) /\ UNCHANGED loadOthers

-----------------------------------------------------------------------------
(* extract.py: _fetch_socrata                                              *)

RECALLS_DATASET_ID == "6axg-epim"

RECALLS_DATE_FIELDS ==
  <<"report_received_date", "report_receive_date", "recall_date", "date">>

\* The $limit of every page request.  The model scales the 1000 of
\* extract.py:46 down to 2.
PAGE_SIZE == 2

\* The status codes a server answers with.
StatusCodes == {200, 403, 500}

\* A source serves at most MaxPages non-empty pages to one fetch.
MaxPages == 2

\* The non-empty pages a source may serve: 1..PAGE_SIZE records.
PagesOf(t) == UNION {[1..n -> SourceRecords(t)] : n \in 1..PAGE_SIZE}

\* What comes back for a request: a response with a status code and a JSON
\* body, or no response at all (requests.get raises).
Response(status, body) == <<"response", status, body>>

NoResponse == <<"no response">>

IdleFetch ==
  [pc           |-> "idle",
   dataset_id   |-> "",
   where_clause |-> NULL,
   max_pages    |-> NULL,
   offset       |-> 0,
   records      |-> <<>>,
   result       |-> NONE,    \* Returned(records) or Raised(class)
   pages        |-> <<>>,    \* history: the bodies received with a success status
   statuses     |-> <<>>]    \* history: the status codes received

FetchIdle == ft = IdleFetch /\ http = <<>>

\* The frame of _fetch_socrata(dataset_id, where_clause, max_pages) at the
\* top of its loop.
FetchEntry(dataset_id, where_clause, max_pages) ==
  [IdleFetch EXCEPT !.pc = "loop", !.dataset_id = dataset_id,
                    !.where_clause = where_clause, !.max_pages = max_pages]

\* params: $limit and $offset, and $where `if where_clause`.
Params(f) ==
  [api    |-> "socrata",
   dataset |-> f.dataset_id,
   limit  |-> PAGE_SIZE,
   offset |-> f.offset,
   where  |-> IF Truthy(f.where_clause) THEN f.where_clause ELSE NONE]

\* A failure status that is taken for a failure only when the server is at
\* fault.
IsFailureOnServerErrorOnly(status) == status >= 500

\* `response.status_code >= 400`
IsFailure(status) == status >= 400

\* The offset that moves on by the records received.
NextOffsetByRecords(offset, page) == offset + Len(page)

\* `offset += PAGE_SIZE`
NextOffset(offset, page) == offset + PAGE_SIZE

\* The page cap tested with > in place of >=.
ReachedMaxPagesOffByOne(max_pages, offset) ==
  max_pages # NULL /\ (offset \div PAGE_SIZE) > max_pages[2]

\* `max_pages is not None and (offset // PAGE_SIZE) >= max_pages`
ReachedMaxPages(max_pages, offset) ==
  max_pages # NULL /\ (offset \div PAGE_SIZE) >= max_pages[2]

\* The frame and the log lines at `return records`.
FetchReturn(f, lines) ==
  /\ ft' = [f EXCEPT !.pc = "returned", !.result = Returned(f.records)]
  /\ Write(1, lines \o Info(<<"Fetched total records from", Len(f.records),
                               f.dataset_id>>))

\* One turn of the loop of _fetch_socrata: the request, the response and what
\* the code does with it, up to the next request or to the way out.
FetchPageStep ==
  /\ ft.pc = "loop"
  /\ http' = Append(http, Params(ft))
  /\ LET fetching == Info(<<"Fetching", ft.dataset_id, ft.offset>>)
     IN  \E resp \in {NoResponse}
                       \cup {Response(st, <<>>) : st \in StatusCodes}
                       \cup {Response(200, pg) : pg \in PagesOf("raw.recalls")} :
           IF resp = NoResponse
           THEN /\ ft' = [ft EXCEPT !.pc = "raised",
                                    !.result = Raised("ConnectionError")]
                /\ Write(1, fetching)
           ELSE LET status == resp[2]
                    page == resp[3]
                    f1 == [ft EXCEPT !.statuses = Append(@, status)]
                IN  IF IsFailure(status)
                    THEN /\ ft' = [f1 EXCEPT !.pc = "raised",
                                             !.result = Raised("HTTPError")]
                         /\ Write(1, fetching)
                    ELSE LET f2 == [f1 EXCEPT !.pages = Append(@, page)]
                         IN  IF page = <<>>
                             THEN FetchReturn(f2, fetching \o
                                    Info(<<"No more records. Stopping pagination.">>))
                             ELSE /\ Len(ft.pages) < MaxPages
                                  /\ LET f3 == [f2 EXCEPT
                                                  !.records = @ \o page,
                                                  !.offset = NextOffset(@, page)]
                                     IN  IF ReachedMaxPages(f3.max_pages, f3.offset)
                                         THEN FetchReturn(f3, fetching \o
                                                Info(<<"Reached max_pages; stopping early.",
                                                       f3.max_pages>>))
                                         ELSE /\ ft' = f3
                                              /\ Write(1, fetching)

FetchPage == FetchPageStep /\ UNCHANGED <<fetchOthers>>

-----------------------------------------------------------------------------
(* extract.py: field detection, the where clause, the complaints request   *)

\* The first of candidates that is a field of record, None when none is.
_first_present_field(record, candidates) ==
  LET present == {i \in 1..Len(candidates) : HasField(record, candidates[i])}
  IN  IF present = {} THEN NULL
      ELSE <<"field", candidates[CHOOSE i \in present : \A j \in present : i <= j]>>

\* The SoQL filter, as the list of its conjuncts (joined by " AND ").
_build_where_clause(make_field, make, start_date, end_date, date_field) ==
  <<"soql",
    <<<<"upper(field) LIKE 'prefix%'", make_field, Upper(make)>>>>
    \o (IF Truthy(date_field) /\ Truthy(start_date)
        THEN <<<<"field >= 'value'", date_field[2], start_date>>>> ELSE <<>>)
    \o (IF Truthy(date_field) /\ Truthy(end_date)
        THEN <<<<"field <= 'value'", date_field[2], end_date>>>> ELSE <<>>)>>

\* extract_recalls between the probe and the full fetch: make_field and
\* date_field read off the first probe record.
DetectedMakeField(probe) ==
  IF probe # <<>> /\ HasField(probe[1], "manufacturer") /\ ~HasField(probe[1], "make")
  THEN "manufacturer"
  ELSE "make"

DetectedDateField(probe) ==
  IF probe # <<>> THEN _first_present_field(probe[1], RECALLS_DATE_FIELDS) ELSE NULL

\* int(s) of a str: the decimal digits between surrounding whitespace;
\* ValueError for anything else.
IntOf(v) ==
  LET s == Chars(Strip(v))
  IN  IF AllDecimal(s) THEN Returned(<<"int", DecimalValue(s)>>)
      ELSE Raised("ValueError")

\* str(i) of an int.
StrOfInt(i) == <<"decimal", i[2]>>

\* A JSON object, its members in order.
Object(members) == <<"object", members>>

\* The complaints API answers at most MaxResults records.
MaxResults == 2

ResultKeys == {"results", "Results", "RESULTS"}

\* The JSON bodies the complaints API may answer with: an array, an empty
\* object, or an object with one member under a variant of "results" that is
\* null, a string or an array of complaint records.
ComplaintBodies ==
  {List(<<>>), Object(<<>>)}
    \cup {Object(<<<<k, v>>>>) :
            k \in ResultKeys,
            v \in {NULL, S_c}
                    \cup {List(rs) : rs \in UNION {[1..n -> SourceRecords("raw.complaints")]
                                                     : n \in 0..MaxResults}}}

\* extract_complaints_by_vehicle after a success status: Returned(results)
\* or the exception of data.get on a body that is no object.
ResultsOf(data) ==
  IF data[1] # "object" THEN Raised("AttributeError")
  ELSE LET results == PyOr(PyOr(Get(data[2], "results"), Get(data[2], "Results")),
                           List(<<>>))
       IN  IF results[1] = "list" THEN Returned(results[2]) ELSE Returned(<<>>)

\* What may come back for the request of extract_complaints_by_vehicle.
VehicleResponses ==
  {NoResponse}
    \cup {Response(st, Object(<<>>)) : st \in StatusCodes}
    \cup {Response(200, b) : b \in ComplaintBodies}

\* params of extract_complaints_by_vehicle.
VehicleParams(make, model, model_year) ==
  [api       |-> "nhtsa",
   make      |-> make,
   model     |-> model,
   modelYear |-> StrOfInt(model_year)]

\* The outcome of extract_complaints_by_vehicle for what came back:
\* Returned(results) or the exception raised.
extract_complaints_by_vehicle(resp) ==
  IF resp = NoResponse THEN Raised("ConnectionError")
  ELSE IF IsFailure(resp[2]) THEN Raised("HTTPError")
  ELSE ResultsOf(resp[3])

\* The lines extract_complaints_by_vehicle logs.
VehicleLines(make, model, model_year, outcome) ==
  Info(<<"Fetching NHTSA complaints", make, model, model_year>>)
    \o (IF IsReturned(outcome)
        THEN Info(<<"Fetched NHTSA complaint records", Len(Value(outcome))>>)
        ELSE <<>>)

-----------------------------------------------------------------------------
(* flow.py: _env, run_ingest, _print_report, __main__                      *)

S_TESLA == Str(<<"T", "E", "S", "L", "A">>)

S_2024_01_01 == Str(<<"2", "0", "2", "4", "-", "0", "1", "-", "0", "1">>)

S_2024_12_31 == Str(<<"2", "0", "2", "4", "-", "1", "2", "-", "3", "1">>)

EnvNames ==
  {"RECALLWATCH_MAKE", "RECALLWATCH_START", "RECALLWATCH_END",
   "RECALLWATCH_MODEL", "RECALLWATCH_MODEL_YEAR"}

\* The values the environment may hold for a variable; NULL is the unset
\* variable.  The environment does not change while the process runs: the
\* model draws a variable's value when the process first reads it.
EnvValues(name) ==
  CASE name = "RECALLWATCH_MAKE" -> {NULL, S_t}
    [] name = "RECALLWATCH_MODEL" -> {NULL, S_blank, S_c}
    [] name = "RECALLWATCH_MODEL_YEAR" -> {NULL, S_blank, S_2024, S_abc}
    [] OTHER -> {NULL}

\* _env without the test of the stripped value.
_env_unstripped(v, default) ==
  IF v # NULL /\ v # EmptyStr THEN v ELSE default

\* _env(name, default), v being os.getenv(name).
_env(v, default) ==
  IF v # NULL /\ Strip(v) # EmptyStr THEN v ELSE default

NewReport(started_at, make, start, end) ==
  [started_at           |-> started_at,
   make                 |-> make,
   start_date           |-> start,
   end_date             |-> end,
   recalls_extracted    |-> 0,
   recalls_loaded       |-> 0,
   complaints_extracted |-> 0,
   complaints_loaded    |-> 0,
   complaints_skipped   |-> FALSE,
   finished_at          |-> NONE]

IdleFlow ==
  [pc         |-> "idle",
   make       |-> NONE,
   start      |-> NONE,
   end        |-> NONE,
   model      |-> NONE,
   model_year |-> NONE,
   report     |-> NONE,
   error      |-> NONE,    \* the exception __main__ caught
   steps      |-> <<>>]    \* history: the steps completed, each with its count

FlowIdle == fl = IdleFlow /\ env = [n \in EnvNames |-> NONE]

\* The lines _print_report prints.
_print_report(report) ==
  << <<"=== RecallWatch Ingest Report ===">>,
     <<"make:", report.make>>,
     <<"window:", report.start_date, report.end_date>>,
     <<"started_at:", report.started_at>>,
     <<"finished_at:", report.finished_at>>,
     <<"-">>,
     <<"recalls: extracted loaded", report.recalls_extracted, report.recalls_loaded>>,
     IF report.complaints_skipped
     THEN <<"complaints: skipped (set RECALLWATCH_MODEL and RECALLWATCH_MODEL_YEAR)">>
     ELSE <<"complaints: extracted loaded", report.complaints_extracted,
            report.complaints_loaded>> >>

\* The except clause of __main__: logger.exception, the ERROR line, exit(1).
ExceptLines(cls) ==
  Emitted("ERROR", <<"Ingest failed", cls>>) \o << <<"ERROR:", cls>> >>

\* run_ingest up to the first request of the probe.
RunStart ==
  /\ fl.pc = "start"
  /\ \E mk \in EnvValues("RECALLWATCH_MAKE"),
        st \in EnvValues("RECALLWATCH_START"),
        en \in EnvValues("RECALLWATCH_END") :
       LET make == _env(mk, S_TESLA)
           start == _env(st, S_2024_01_01)
           end == _env(en, S_2024_12_31)
       IN  /\ env' = [env EXCEPT !["RECALLWATCH_MAKE"] = mk,
                                 !["RECALLWATCH_START"] = st,
                                 !["RECALLWATCH_END"] = en]
           /\ fl' = [fl EXCEPT !.pc = "probe", !.make = make, !.start = start,
                               !.end = end,
                               !.report = NewReport(UtcNow(now), make, start, end)]
           /\ Write(1, Info(<<"Step 1/2: Extract+Load recalls", make, start, end>>))
  /\ ft' = FetchEntry(RECALLS_DATASET_ID, NULL, <<"int", 1>>)
  /\ UNCHANGED <<now, mapVars, loadVars, http>>

\* extract_recalls from the probe's return to the first request of the full
\* fetch.
ProbeDone ==
  /\ fl.pc = "probe"
  /\ ft.pc = "returned"
  /\ LET probe == Value(ft.result)
         make_field == DetectedMakeField(probe)
         date_field == DetectedDateField(probe)
     IN  /\ ft' = FetchEntry(RECALLS_DATASET_ID,
                             _build_where_clause(make_field, fl.make, fl.start,
                                                 fl.end, date_field),
                             NULL)
         /\ Write(1, IF probe # <<>>
                     THEN Info(<<"Recalls fields detected", make_field, date_field>>)
                     ELSE <<>>)
  /\ fl' = [fl EXCEPT !.pc = "fetch_recalls"]
  /\ UNCHANGED <<now, mapVars, loadVars, http, env>>

\* A flow that hands on the records collected so far while the fetch is
\* still paging.
HasRecordsSoFar(f) == f.pc \in {"loop", "returned"}

\* `recalls = extract_recalls(...)`: the fetch of frame f has returned its
\* records to run_ingest.
HasReturned(f) == f.pc = "returned"

\* run_ingest from extract_recalls' return to load_recalls' connect.
RecallsFetched ==
  /\ fl.pc = "fetch_recalls"
  /\ HasReturned(ft)
  /\ now < MaxClock
  /\ now' = now + 1
  /\ LET recalls == ft.records
     IN  /\ fl' = [fl EXCEPT !.pc = "load_recalls",
                             !.report.recalls_extracted = Len(recalls),
                             !.steps = Append(@, <<"recall fetch", Len(recalls)>>)]
         /\ LoadEntry(1, "raw.recalls", recalls, FALSE, now + 1)
  /\ ft' = IdleFetch
  /\ UNCHANGED <<mapVars, out, http, env>>

\* run_ingest from load_recalls' return: the skip of the complaints, or on to
\* extract_complaints up to its request.
RecallsLoaded ==
  /\ fl.pc = "load_recalls"
  /\ ld[1].pc = "returned"
  /\ \E mv \in EnvValues("RECALLWATCH_MODEL"),
        yv \in EnvValues("RECALLWATCH_MODEL_YEAR") :
       LET model == _env(mv, NULL)
           model_year == _env(yv, NULL)
           loaded == Value(ld[1].result)
           f1 == [fl EXCEPT !.report.recalls_loaded = loaded,
                            !.steps = Append(@, <<"recall upsert", loaded>>),
                            !.model = model, !.model_year = model_year]
           step2 == Info(<<"Step 2/2: Extract+Load complaints", fl.make, model,
                           model_year>>)
       IN  /\ env' = [env EXCEPT !["RECALLWATCH_MODEL"] = mv,
                                 !["RECALLWATCH_MODEL_YEAR"] = yv]
           /\ IF ~Truthy(model) \/ ~Truthy(model_year)
              THEN LET f2 == [f1 EXCEPT !.pc = "exit0",
                                        !.report.complaints_skipped = TRUE,
                                        !.report.finished_at = UtcNow(now)]
                   IN  /\ fl' = f2
                       /\ Write(1, Info(<<"Step 2/2: Complaints skipped">>)
                                     \o _print_report(f2.report))
              ELSE \* extract_complaints reads os.getenv itself
                   IF ~Truthy(mv) \/ ~Truthy(yv) \/ IsRaised(IntOf(yv))
                   THEN /\ fl' = [f1 EXCEPT !.pc = "exit1", !.error = "ValueError"]
                        /\ Write(1, step2 \o ExceptLines("ValueError"))
                   ELSE /\ fl' = [f1 EXCEPT !.pc = "complaints"]
                        /\ Write(1, step2)
  /\ ld' = [ld EXCEPT ![1] = IdleFrame]
  /\ UNCHANGED <<now, mapVars, table, lastWritten, fetchVars>>

\* extract_complaints_by_vehicle: the request, the response, and run_ingest
\* on to load_complaints' connect.
ComplaintsRequest ==
  /\ fl.pc = "complaints"
  /\ now < MaxClock
  /\ LET model == env["RECALLWATCH_MODEL"]
         year == Value(IntOf(env["RECALLWATCH_MODEL_YEAR"]))
     IN  /\ http' = Append(http, VehicleParams(fl.make, model, year))
         /\ \E resp \in VehicleResponses :
              LET res == extract_complaints_by_vehicle(resp)
                  lines == VehicleLines(fl.make, model, year, res)
              IN  IF IsRaised(res)
                  THEN /\ fl' = [fl EXCEPT !.pc = "exit1", !.error = Value(res)]
                       /\ Write(1, lines \o ExceptLines(Value(res)))
                       /\ UNCHANGED <<now, loadVars>>
                  ELSE LET complaints == Value(res)
                       IN  /\ fl' = [fl EXCEPT
                                  !.pc = "load_complaints",
                                  !.report.complaints_extracted = Len(complaints),
                                  !.steps = Append(@, <<"complaint fetch",
                                                        Len(complaints)>>)]
                           /\ Write(1, lines)
                           /\ now' = now + 1
                           /\ LoadEntry(1, "raw.complaints", complaints, FALSE,
                                        now + 1)
  /\ UNCHANGED <<mapVars, ft, env>>

\* run_ingest from load_complaints' return to the end of the process.
ComplaintsLoaded ==
  /\ fl.pc = "load_complaints"
  /\ ld[1].pc = "returned"
  /\ LET loaded == Value(ld[1].result)
         f1 == [fl EXCEPT !.pc = "exit0",
                          !.report.complaints_loaded = loaded,
                          !.report.finished_at = UtcNow(now),
                          !.steps = Append(@, <<"complaint upsert", loaded>>)]
     IN  /\ fl' = f1
         /\ Write(1, _print_report(f1.report))
  /\ ld' = [ld EXCEPT ![1] = IdleFrame]
  /\ UNCHANGED <<now, mapVars, table, lastWritten, fetchVars, env>>

\* An exception of _fetch_socrata leaves extract_recalls and run_ingest and
\* reaches the except clause of __main__.
FetchFailed ==
  /\ fl.pc \in {"probe", "fetch_recalls"}
  /\ ft.pc = "raised"
  /\ fl' = [fl EXCEPT !.pc = "exit1", !.error = Value(ft.result)]
  /\ Write(1, ExceptLines(Value(ft.result)))
  /\ ft' = IdleFetch
  /\ UNCHANGED <<now, mapVars, loadVars, http, env>>

\* An exception of load_recalls or load_complaints leaves run_ingest and
\* reaches the except clause of __main__.
LoadFailed ==
  /\ fl.pc \in {"load_recalls", "load_complaints"}
  /\ ld[1].pc = "raised"
  /\ fl' = [fl EXCEPT !.pc = "exit1", !.error = Value(ld[1].result)]
  /\ Write(1, ExceptLines(Value(ld[1].result)))
  /\ ld' = [ld EXCEPT ![1] = IdleFrame]
  /\ UNCHANGED <<now, mapVars, table, lastWritten, fetchVars, env>>

-----------------------------------------------------------------------------
(* The Upserter on its own: callers of load_recalls and load_complaints    *)

\* A load call carries at most MaxBatch records.
MaxBatch == 3

BatchesOf(t) ==
  UNION {[1..n -> SourceRecords(t)] : n \in 0..MaxBatch}

InitLoad ==
  /\ now = 0
  /\ mcat = "recall" /\ mrec = <<>> /\ mkey = NONE /\ mrow = NONE
  /\ LoadIdle
  /\ FetchIdle
  /\ FlowIdle

\* A caller invokes load_recalls(records) or load_complaints(records); every
\* call is made later than the call before it.
CallLoad ==
  \E p \in DOMAIN ld :
    /\ ld[p].pc \in {"idle", "returned", "raised"}
    /\ now < MaxClock
    /\ now' = now + 1
    /\ \E t \in TableNames : \E recs \in BatchesOf(t) :
         LoadEntry(p, t, recs, FALSE, now + 1)
    /\ out' = [out EXCEPT ![p] = <<>>]
    /\ UNCHANGED <<mapVars, fetchVars, flowVars>>

\* The caller takes the result of a call and invokes the same function again
\* with the same records.
CallAgain ==
  \E p \in DOMAIN ld :
    /\ ld[p].pc = "returned"
    /\ now < MaxClock
    /\ now' = now + 1
    /\ LoadEntry(p, ld[p].tab, ld[p].recs, TRUE, now + 1)
    /\ out' = [out EXCEPT ![p] = <<>>]
    /\ UNCHANGED <<mapVars, fetchVars, flowVars>>

NextLoad == CallLoad \/ CallAgain \/ Connect \/ ExecRow \/ DbFail \/ Commit

SpecLoad == InitLoad /\ [][NextLoad]_vars

-----------------------------------------------------------------------------
(* Claims on the Upserter (checked under SpecLoad)                         *)

KeysIn(rows, col) == {y[col] : y \in rows}

\* C1 (idempotent upsert): every table holds at most one row per identity
\* key, and when the call that repeats the previous successful call's
\* non-empty input has ended, the table has the number of rows and the set
\* of keys it had after the first application.
C1_IdempotentUpsert ==
  /\ \A t \in TableNames : \A x, y \in table[t] :
       x[ConflictCol(t)] = y[ConflictCol(t)] => x = y
  /\ \A p \in DOMAIN ld :
       (/\ ld[p].again
        /\ ld[p].rows # <<>>
        /\ ld[p].pc \in {"returned", "raised"}) =>
         /\ Cardinality(table[ld[p].tab]) = Cardinality(ld[p].before)
         /\ KeysIn(table[ld[p].tab], ConflictCol(ld[p].tab))
              = KeysIn(ld[p].before, ConflictCol(ld[p].tab))

\* C1 witness: a batch of three rows (two statements) with two keys was
\* upserted, then upserted again, and the table holds two rows.
C1_Witness ==
  /\ ld[1].again
  /\ ld[1].pc = "returned"
  /\ Len(ld[1].rows) = 3
  /\ ld[1].tab = "raw.recalls"
  /\ Cardinality(table["raw.recalls"]) = 2

\* C2 (last write wins, full-row replace): for every key ever upserted
\* successfully the table holds exactly one row with the key, and that row
\* equals, column by column, the row most recently upserted with the key.
C2_LastWriteWins ==
  \A t \in TableNames : \A k \in DOMAIN lastWritten[t] :
    {y \in table[t] : y[ConflictCol(t)] = k} = {lastWritten[t][k]}

\* C2 witness: a stored row with a non-null component was replaced by a
\* later upsert of the same key carrying a null component.
C2_Witness ==
  /\ ld[1].pc = "returned"
  /\ ld[1].tab = "raw.recalls"
  /\ \E x \in ld[1].before : \E y \in table["raw.recalls"] :
       /\ x.recall_pk = y.recall_pk
       /\ x.component = S_c
       /\ y.component = NULL
       /\ x.ingested_at # y.ingested_at

\* C3 (atomic batch commit): while a call is in progress and after it has
\* failed, the table equals its content before the call, whatever number of
\* statements were executed; after it has succeeded, the table holds for
\* every key of the batch the batch's last row with that key, and the rows
\* with other keys as before.
C3_AtomicBatchCommit ==
  \A p \in DOMAIN ld :
    LET f == ld[p]
        t == f.tab
        k == ConflictCol(t)
        keys == KeysOfRows(f.rows, k)
    IN  /\ f.pc \in {"connect", "execute", "commit", "raised"} => table[t] = f.before
        /\ f.pc = "returned" =>
             /\ \A key \in keys : LastWithKey(f.rows, k, key) \in table[t]
             /\ {y \in table[t] : y[k] \notin keys} = {y \in f.before : y[k] \notin keys}
             /\ KeysIn(table[t], k) = KeysIn(f.before, k) \cup keys

\* C3 witness: a call with more rows than one statement carries failed after
\* its first statement had been executed in full.
C3_Witness ==
  /\ ld[1].pc = "raised"
  /\ Len(ld[1].rows) > page_size
  /\ ld[1].pos = page_size
  /\ ld[1].result = Raised("OperationalError")

\* C11 (empty batch is a no-op): a call that was given zero records has
\* asked nothing of the store (no connection, no statement, no commit), has
\* returned 0 when it has ended, and leaves every table as it was.
C11_EmptyBatchNoOp ==
  \A p \in DOMAIN ld :
    (ld[p].pc # "idle" /\ ld[p].recs = <<>>) =>
      /\ ld[p].io = <<>>
      /\ ld[p].pc \in {"returned", "raised"} => ld[p].result = Returned(0)
      /\ table[ld[p].tab] = ld[p].before

\* The batch of frame f holds two rows with the same identity key.
HasRepeatedKey(f) ==
  \E i, j \in 1..Len(f.rows) :
    i < j /\ f.rows[i][ConflictCol(f.tab)] = f.rows[j][ConflictCol(f.tab)]

\* C20 (batch with a repeated key): a call whose batch holds two or more
\* rows with the same identity key is not failed by the repetition, and once
\* it has returned the table holds for every key of the batch exactly one
\* row, the last row of the batch with that key.
C20_RepeatedKeyInBatch ==
  \A p \in DOMAIN ld :
    HasRepeatedKey(ld[p]) =>
      /\ ld[p].result # Raised("CardinalityViolation")
      /\ ld[p].pc = "returned" =>
           \A key \in KeysOfRows(ld[p].rows, ConflictCol(ld[p].tab)) :
             {y \in table[ld[p].tab] : y[ConflictCol(ld[p].tab)] = key}
               = {LastWithKey(ld[p].rows, ConflictCol(ld[p].tab), key)}

-----------------------------------------------------------------------------
(* Two instances of the pipeline load recalls into the same store          *)

Procs == {1, 2}

\* Each of the two concurrent calls carries at most MaxConcBatch records.
MaxConcBatch == 2

InitConc ==
  /\ now = 0
  /\ mcat = "recall" /\ mrec = <<>> /\ mkey = NONE /\ mrow = NONE
  /\ table = [t \in TableNames |-> {}]
  /\ ld = [p \in Procs |-> IdleFrame]
  /\ out = [p \in Procs |-> <<>>]
  /\ lastWritten = [t \in TableNames |-> <<>>]
  /\ FetchIdle
  /\ FlowIdle

\* An instance that has not yet done so invokes load_recalls(records).
CallConc ==
  \E p \in DOMAIN ld :
    /\ ld[p].pc = "idle"
    /\ now < MaxClock
    /\ now' = now + 1
    /\ \E recs \in UNION {[1..n -> SourceRecords("raw.recalls")] : n \in 0..MaxConcBatch} :
         LoadEntry(p, "raw.recalls", recs, FALSE, now + 1)
    /\ UNCHANGED <<mapVars, out, fetchVars, flowVars>>

NextConc == CallConc \/ Connect \/ ExecRow \/ DbFail \/ Commit \/ Deadlock

SpecConc == InitConc /\ [][NextConc]_vars

\* C12 (concurrent runs are data-safe): when two instances have loaded
\* concurrently, neither batch repeating a key and the store itself failing
\* neither, both calls have returned, and for every identity key of either
\* batch the table holds exactly one row, which is a row one of the two
\* calls wrote for that key.
C12_ConcurrentRunsDataSafe ==
  (/\ DOMAIN ld = Procs
   /\ \A p \in Procs :
        /\ ld[p].pc \in {"returned", "raised"}
        /\ ~ HasRepeatedKey(ld[p])
        /\ ld[p].result # Raised("OperationalError")) =>
    /\ \A p \in Procs : ld[p].pc = "returned"
    /\ \A key \in UNION {KeysOfRows(ld[p].rows, "recall_pk") : p \in Procs} :
         \E y \in table["raw.recalls"] :
           /\ {z \in table["raw.recalls"] : z.recall_pk = key} = {y}
           /\ \E p \in Procs : \E i \in 1..Len(ld[p].rows) : ld[p].rows[i] = y

-----------------------------------------------------------------------------
(* Identity & Mapper on its own: one record, derive_key and map_row        *)

InitMap ==
  /\ now = 0
  /\ \/ mcat = "recall" /\ mrec \in RecordsOver(RecallFields)
     \/ mcat = "complaint" /\ mrec \in RecordsOver(ComplaintFields)
  /\ mkey = NONE
  /\ mrow = NONE
  /\ LoadIdle
  /\ FetchIdle
  /\ FlowIdle

CallDeriveKey ==
  /\ mkey = NONE
  /\ mkey' = derive_key(mcat, mrec)
  /\ UNCHANGED <<now, mcat, mrec, mrow, mapOthers>>

CallMapRow ==
  /\ mrow = NONE
  /\ mrow' = map_row(mcat, mrec, now)
  /\ UNCHANGED <<now, mcat, mrec, mkey, mapOthers>>

NextMap == Tick \/ CallDeriveKey \/ CallMapRow

SpecMap == InitMap /\ [][NextMap]_vars

-----------------------------------------------------------------------------
(* Claims on the Identity & Mapper (checked under SpecMap)                 *)

\* C6 (key determinism): the key derive_key returned for a record is a str,
\* never null, and equals the key derived now, at whatever time the clock
\* shows, from every reordering of the record's fields; map_row, whenever it
\* was called, put that same key in the row's identity column.
C6_KeyDeterminism ==
  mkey # NONE =>
    /\ mkey # NULL
    /\ IsStr(mkey)
    /\ Chars(mkey) # <<>>
    /\ \A p \in Reorderings(mrec) : derive_key(mcat, p) = mkey
    /\ IsReturned(mrow) => Value(mrow)[PkColumn(mcat)] = mkey

\* C6 witness: a two-field recall record without a natural identifier whose
\* key was derived, then the clock advanced and map_row was called.
C6_Witness ==
  /\ mcat = "recall"
  /\ Len(mrec) = 2
  /\ Get(mrec, "subject") = S_c
  /\ Get(mrec, "manufacturer") = S_t
  /\ mkey # NONE
  /\ IsReturned(mrow)
  /\ Value(mrow).ingested_at # UtcNow(0)

\* The record r with field `from` renamed to field `to`.
Rename(r, from, to) ==
  [i \in 1..Len(r) |-> IF r[i][1] = from THEN <<to, r[i][2]>> ELSE r[i]]

\* C7 (field-variant tolerance): a recall record carrying the manufacturer
\* value under `manufacturer` and the record carrying it under `make`
\* instead map to the same make column, and when neither has a natural
\* identifier to the same fallback key.
C7_FieldVariantTolerance ==
  (/\ mcat = "recall"
   /\ IsReturned(mrow)
   /\ HasField(mrec, "manufacturer")
   /\ ~HasField(mrec, "make")) =>
    LET other == Value(map_recall_row(Rename(mrec, "manufacturer", "make"), now))
    IN  /\ other.make = Value(mrow).make
        /\ other.recall_pk = Value(mrow).recall_pk

\* The date a well-formed source value stands for, by the claim's examples.
ExpectedDate(v) ==
  IF v = S_timestamp THEN <<"date", 2024, 3, 15>> ELSE NULL

\* C10 (malformed fields degrade to null): map_row raises no error on any
\* record; an unparseable date ("not-a-date", 2024-02-30) gives a null date
\* column and "2024-03-15T00:00:00.000" the date 2024-03-15; a model year
\* that is not a decimal number gives a null year column; the identity key
\* is the one derive_key gives.
C10_MalformedFieldsDegrade ==
  mrow # NONE =>
    /\ IsReturned(mrow)
    /\ Value(mrow)[PkColumn(mcat)] = derive_key(mcat, mrec)
    /\ mcat = "recall" =>
         Value(mrow).report_date =
           ExpectedDate(PyOr(Get(mrec, "report_received_date"),
                             Get(mrec, "report_date")))
    /\ mcat = "complaint" =>
         /\ Value(mrow).received_date =
              ExpectedDate(PyOr(Get(mrec, "DateReceived"), Get(mrec, "date_received")))
         /\ Value(mrow).incident_date =
              ExpectedDate(PyOr(Get(mrec, "IncidentDate"), Get(mrec, "incident_date")))
         /\ LET year == PyOr(PyOr(Get(mrec, "ModelYear"), Get(mrec, "model_year")),
                             Get(mrec, "Year"))
            IN  Value(mrow).model_year =
                  (IF year # NULL /\ AllDecimal(Chars(Strip(year)))
                   THEN <<"int", DecimalValue(Chars(Strip(year)))>>
                   ELSE NULL)

\* The field-name variants of the natural identifier, in priority order.
IdVariants(cat) ==
  IF cat = "recall"
  THEN <<"nhtsa_id", "NHTSA_ID">>
  ELSE <<"ODINumber", "odi_number", "odiNumber", "complaint_number">>

NaturalPrefix(cat) == IF cat = "recall" THEN Lit_nhtsa ELSE Lit_odi

\* The positions of the variants under which r holds an identifier that is
\* non-empty after trimming.
NonEmptyIds(cat, r) ==
  {i \in 1..Len(IdVariants(cat)) :
     /\ Get(r, IdVariants(cat)[i]) # NULL
     /\ Chars(Strip(Get(r, IdVariants(cat)[i]))) # <<>>}

StartsWith(s, prefix) ==
  Len(s) >= Len(prefix) /\ SubSeq(s, 1, Len(prefix)) = prefix

\* C18.  Natural identifier wins: when the record holds, under some checked
\* variant, an identifier that is non-empty after trimming, the derived key
\* is `nhtsa:` / `odi:` followed by the trimmed identifier of the first such
\* variant in priority order; the key is a `hash:` key only when no variant
\* holds a non-empty identifier.
C18_NaturalIdentifierWins ==
  mkey # NONE =>
    IF NonEmptyIds(mcat, mrec) # {}
    THEN LET first == CHOOSE i \in NonEmptyIds(mcat, mrec) :
                        \A j \in NonEmptyIds(mcat, mrec) : i <= j
         IN  mkey = Str(NaturalPrefix(mcat)
                          \o Chars(Strip(Get(mrec, IdVariants(mcat)[first]))))
    ELSE StartsWith(Chars(mkey), Lit_hash)

\* C19.  Key and source-id agree: in every mapped row whose identity key is
\* `nhtsa:<id>` or `odi:<id>` the source-id column is non-null and equals
\* <id>; in every mapped row whose key is `hash:<digest>` the source-id
\* column is null.
C19_KeyAndSourceIdAgree ==
  IsReturned(mrow) =>
    LET pk == Chars(Value(mrow)[PkColumn(mcat)])
        source_id == Value(mrow).source_id
    IN  /\ StartsWith(pk, NaturalPrefix(mcat)) =>
             /\ source_id # NULL
             /\ Chars(source_id) = SubSeq(pk, Len(NaturalPrefix(mcat)) + 1, Len(pk))
        /\ StartsWith(pk, Lit_hash) => source_id = NULL

\* The record r with value v stored under its field f.
WithValue(r, f, v) ==
  [i \in 1..Len(r) |-> IF r[i][1] = f THEN <<f, v>> ELSE r[i]]

S_march16 == Str(<<"2", "0", "2", "4", "-", "0", "3", "-", "1", "6">>)

\* C21.  Fetcher and Mapper agree on the date field: for a recall record
\* whose date field, as the fetcher detects it among its candidates
\* (report_received_date, report_receive_date, recall_date, date), holds the
\* valid value "2024-03-15T00:00:00.000", map_row puts the date 2024-03-15
\* in the report-date column, and a fallback `hash:` key changes when that
\* field holds another date instead.
C21_FetcherAndMapperAgreeOnDate ==
  LET D == _first_present_field(mrec, RECALLS_DATE_FIELDS)
  IN  (/\ mcat = "recall"
       /\ IsReturned(mrow)
       /\ D # NULL
       /\ Get(mrec, D[2]) = S_timestamp) =>
        /\ Value(mrow).report_date = <<"date", 2024, 3, 15>>
        /\ StartsWith(Chars(Value(mrow).recall_pk), Lit_hash) =>
             recall_pk_from_record(WithValue(mrec, D[2], S_march16))
               # Value(mrow).recall_pk

-----------------------------------------------------------------------------
(* The Fetcher on its own: a caller of _fetch_socrata                      *)

InitFetch ==
  /\ now = 0
  /\ mcat = "recall" /\ mrec = <<>> /\ mkey = NONE /\ mrow = NONE
  /\ LoadIdle
  /\ FetchIdle
  /\ FlowIdle

\* The where clauses and page caps a caller passes.
WhereClauses ==
  {NULL, EmptyStr,
   _build_where_clause("make", S_TESLA, S_2024_01_01, S_2024_12_31, NULL)}

PageCaps == {NULL, <<"int", 1>>, <<"int", 2>>}

\* A caller invokes _fetch_socrata.
CallFetch ==
  /\ ft.pc = "idle"
  /\ \E w \in WhereClauses, cap \in PageCaps :
       ft' = FetchEntry(RECALLS_DATASET_ID, w, cap)
  /\ UNCHANGED <<now, mapVars, loadVars, out, http, flowVars>>

NextFetch == CallFetch \/ FetchPage

SpecFetch == InitFetch /\ [][NextFetch]_vars

-----------------------------------------------------------------------------
(* Claims on the Fetcher (checked under SpecFetch)                         *)

RECURSIVE Flatten(_)
Flatten(pages) ==
  IF pages = <<>> THEN <<>> ELSE Head(pages) \o Flatten(Tail(pages))

\* C4.  Pagination termination: once the source has answered a fetch without
\* page cap k >= 0 non-empty pages and then an empty page, the fetch has
\* returned and sends no further request; it has sent exactly k + 1 requests,
\* with limit PAGE_SIZE at the offsets 0, PAGE_SIZE, ..., k * PAGE_SIZE; what
\* it returned is the concatenation of the k non-empty pages in request
\* order; and after 2 full pages it is exactly 2 * PAGE_SIZE records.
C4_PaginationTermination ==
  (ft.max_pages = NULL /\ ft.pages # <<>> /\ ft.pages[Len(ft.pages)] = <<>>) =>
    LET k == Len(ft.pages) - 1
    IN  /\ \A i \in 1..k : ft.pages[i] # <<>>
        /\ ft.pc = "returned"
        /\ ~ ENABLED FetchPageStep
        /\ Len(http) = k + 1
        /\ \A i \in 1..(k + 1) :
             http[i].limit = PAGE_SIZE /\ http[i].offset = (i - 1) * PAGE_SIZE
        /\ ft.result = Returned(Flatten(SubSeq(ft.pages, 1, k)))
        /\ (k = 2 /\ \A i \in 1..2 : Len(ft.pages[i]) = PAGE_SIZE)
             => Len(Value(ft.result)) = 2 * PAGE_SIZE

\* C4 witness: a fetch without page cap has returned after a full page, a
\* short page and the empty page.
C4_Witness ==
  /\ ft.pc = "returned"
  /\ ft.max_pages = NULL
  /\ Len(ft.pages) = 3
  /\ Len(ft.pages[1]) = PAGE_SIZE
  /\ Len(ft.pages[2]) = 1
  /\ Len(Value(ft.result)) = PAGE_SIZE + 1

NonSuccess(status) == status \notin 200..299

-----------------------------------------------------------------------------
(* The complaints request on its own: a caller of                          *)
(* extract_complaints_by_vehicle                                           *)

\* A caller invokes extract_complaints_by_vehicle(make, model, model_year);
\* the frame keeps what came back and the outcome.
CallByVehicle ==
  /\ ft.pc = "idle"
  /\ \E make \in {S_TESLA, S_t}, model \in {S_c, S_blank},
        year \in {<<"int", 2024>>, <<"int", 7>>} :
       /\ http' = Append(http, VehicleParams(make, model, year))
       /\ \E resp \in VehicleResponses :
            LET res == extract_complaints_by_vehicle(resp)
            IN  /\ ft' = [IdleFetch EXCEPT
                            !.pc = IF IsRaised(res) THEN "raised" ELSE "returned",
                            !.dataset_id = "complaintsByVehicle",
                            !.result = res,
                            !.statuses = IF resp = NoResponse THEN <<>> ELSE <<resp[2]>>,
                            !.pages = IF resp = NoResponse \/ IsFailure(resp[2])
                                      THEN <<>> ELSE <<resp[3]>>]
                /\ Write(1, VehicleLines(make, model, year, res))
  /\ UNCHANGED <<now, mapVars, loadVars, flowVars>>

NextVehicle == CallByVehicle

SpecVehicle == InitFetch /\ [][NextVehicle]_vars

\* The arrays a body holds under a capitalization variant of "results".
ResultArrays(body) ==
  IF body[1] # "object" THEN {}
  ELSE {Get(body[2], k)[2] : k \in {j \in ResultKeys : Get(body[2], j)[1] = "list"}}

\* C14.  Vehicle-indexed fetch defaults to empty: for every body received
\* with a success status, the call has returned the results array when the
\* body is an object holding one under a capitalization variant of
\* "results", and has returned the empty sequence, without raising, when
\* the body holds none, holds something that is no array, or is no object.
C14_VehicleFetchDefaultsToEmpty ==
  (ft.dataset_id = "complaintsByVehicle" /\ ft.pages # <<>>) =>
    /\ ft.pc = "returned"
    /\ \A a \in ResultArrays(ft.pages[1]) : ft.result = Returned(a)
    /\ ResultArrays(ft.pages[1]) = {} => ft.result = Returned(<<>>)

-----------------------------------------------------------------------------
(* One run of the flow: python src/pipelines/flow.py                        *)

Init ==
  /\ now = 0
  /\ mcat = "recall" /\ mrec = <<>> /\ mkey = NONE /\ mrow = NONE
  /\ LoadIdle
  /\ FetchIdle
  /\ fl = [IdleFlow EXCEPT !.pc = "start"]
  /\ env = [n \in EnvNames |-> NONE]

Next ==
  \/ RunStart
  \/ FetchPage
  \/ ProbeDone
  \/ FetchFailed
  \/ RecallsFetched
  \/ Connect
  \/ ExecRow
  \/ DbFail
  \/ Commit
  \/ LoadFailed
  \/ RecallsLoaded
  \/ ComplaintsRequest
  \/ ComplaintsLoaded

Spec == Init /\ [][Next]_vars

-----------------------------------------------------------------------------
(* Claims on the Orchestrator (checked under Spec)                         *)

\* A variable that is absent from the environment or blank.
NotConfigured(v) == v = NULL \/ Strip(v) = EmptyStr

\* C8.  Complaint skip: once run_ingest has read the model and the model year
\* and one of them is absent or blank, the run has ended without error with
\* complaints_skipped set and complaints_extracted = complaints_loaded = 0
\* in the report it printed, no request has gone to the complaints API, and
\* no upsert of complaints has been started.
C8_ComplaintSkip ==
  (/\ env["RECALLWATCH_MODEL"] # NONE
   /\ env["RECALLWATCH_MODEL_YEAR"] # NONE
   /\ \/ NotConfigured(env["RECALLWATCH_MODEL"])
      \/ NotConfigured(env["RECALLWATCH_MODEL_YEAR"])) =>
    /\ fl.pc = "exit0"
    /\ fl.error = NONE
    /\ fl.report.complaints_skipped
    /\ fl.report.complaints_extracted = 0
    /\ fl.report.complaints_loaded = 0
    /\ \E i \in 1..Len(out[1]) : out[1][i][1] = "Step 2/2: Complaints skipped"
    /\ \A i \in 1..Len(out[1]) : out[1][i][1] # "ERROR:"
    /\ \A i \in 1..Len(http) : http[i].api # "nhtsa"
    /\ ld[1].pc = "idle"
    /\ table["raw.complaints"] = {}

\* C8 witness: a run with a blank model and a model year of 2024 has ended,
\* after recalls were loaded.
C8_Witness ==
  /\ fl.pc = "exit0"
  /\ env["RECALLWATCH_MODEL"] = S_blank
  /\ env["RECALLWATCH_MODEL_YEAR"] = S_2024
  /\ fl.report.recalls_loaded > 0

\* The lines of the output that carry the count of a fetch or of an upsert.
IsCountLine(line) ==
  line[1] \in {"Fetched total records from", "Fetched NHTSA complaint records",
               "Upserted rows into", "No rows to upsert into"}

\* Line carries the count of the completed step.
Carries(line, step) ==
  LET n == step[2]
  IN  CASE step[1] = "recall fetch" ->
             line = <<"Fetched total records from", n, RECALLS_DATASET_ID>>
        [] step[1] = "recall upsert" ->
             \/ line = <<"Upserted rows into", n, "raw.recalls">>
             \/ n = 0 /\ line = <<"No rows to upsert into", "raw.recalls">>
        [] step[1] = "complaint fetch" ->
             line = <<"Fetched NHTSA complaint records", n>>
        [] step[1] = "complaint upsert" ->
             \/ line = <<"Upserted rows into", n, "raw.complaints">>
             \/ n = 0 /\ line = <<"No rows to upsert into", "raw.complaints">>

\* The position of the ERROR line in the output.
ErrorAt(lines) == CHOOSE i \in 1..Len(lines) : lines[i][1] = "ERROR:"

\* C9.  Partial progress on failure: when a run has failed, the output shows,
\* before the ERROR line, one line with the count of every step completed
\* before the failure, in the order of the steps (after the line of the
\* probe, which is no step of the report).
C9_PartialProgress ==
  fl.pc = "exit1" =>
    /\ \E i \in 1..Len(out[1]) : out[1][i][1] = "ERROR:"
    /\ LET before == SubSeq(out[1], 1, ErrorAt(out[1]) - 1)
           counts == SelectSeq(before, IsCountLine)
       IN  fl.steps # <<>> =>
             /\ Len(counts) = Len(fl.steps) + 1
             /\ \A i \in 1..Len(fl.steps) : Carries(counts[i + 1], fl.steps[i])

\* C9 witness: a run has failed at the complaint fetch after it fetched and
\* loaded recalls.
C9_Witness ==
  /\ fl.pc = "exit1"
  /\ Len(fl.steps) = 2
  /\ fl.steps[1][2] > 0
  /\ fl.steps[2][2] > 0
  /\ \E i \in 1..Len(http) : http[i].api = "nhtsa"

\* The conjuncts of a filter on the make column, and its date bounds.
MakePredicates(where) ==
  {i \in 1..Len(where[2]) : where[2][i][1] = "upper(field) LIKE 'prefix%'"}

DateBounds(where) ==
  {i \in 1..Len(where[2]) :
     where[2][i][1] \in {"field >= 'value'", "field <= 'value'"}}

\* The step of extract_recalls from the probe's return to the full fetch.
IsProbeDone == fl.pc = "probe" /\ fl'.pc = "fetch_recalls"

\* C16.  Missing field degrades the filter: when the first probe record has
\* neither `manufacturer` nor `make`, the filter built from it has no make
\* predicate; when it has none of the date candidates, the filter has no
\* date bound; in both cases the full fetch is started and no error is
\* raised.
C16_MissingFieldDegradesFilter ==
  [][(IsProbeDone /\ ft.records # <<>>) =>
       LET rec == ft.records[1]
           noMake == ~ HasField(rec, "manufacturer") /\ ~ HasField(rec, "make")
           noDate == \A i \in 1..Len(RECALLS_DATE_FIELDS) :
                       ~ HasField(rec, RECALLS_DATE_FIELDS[i])
       IN  /\ noMake => MakePredicates(ft'.where_clause) = {}
           /\ noDate => DateBounds(ft'.where_clause) = {}
           /\ (noMake \/ noDate) =>
                 /\ ft'.pc = "loop"
                 /\ ft'.max_pages = NULL
                 /\ fl'.error = NONE]_vars

\* The positions of the date candidates that record has.
DateCandidatesIn(record) ==
  {i \in 1..Len(RECALLS_DATE_FIELDS) : HasField(record, RECALLS_DATE_FIELDS[i])}

\* C17.  Probe-driven filter construction: the first request of recall
\* extraction is the probe, unfiltered and at offset 0, and it is the only
\* unfiltered one; every later request carries the filter of the full fetch;
\* when the first probe record has `manufacturer` and not `make` and its
\* first present date candidate is D, that filter is the AND of the prefix
\* match of upper(manufacturer) on the upper-cased make, D >= window start
\* and D <= window end; the full fetch starts with no records, and what is
\* handed to the loader is the pages of the filtered requests only.
C17_ProbeDrivenFilter ==
  [][/\ (Len(http') > Len(http) /\ http'[Len(http')].api = "socrata") =>
          LET req == http'[Len(http')]
          IN  IF Len(http) = 0
              THEN fl.pc = "probe" /\ req.where = NONE /\ req.offset = 0
              ELSE /\ fl.pc = "fetch_recalls"
                   /\ req.where # NONE
                   /\ req.where = ft.where_clause
                   /\ ft'.where_clause = ft.where_clause
     /\ IsProbeDone =>
          /\ Len(http) = 1
          /\ ft'.records = <<>>
          /\ (/\ ft.records # <<>>
              /\ HasField(ft.records[1], "manufacturer")
              /\ ~ HasField(ft.records[1], "make")
              /\ DateCandidatesIn(ft.records[1]) # {}) =>
               LET first == CHOOSE i \in DateCandidatesIn(ft.records[1]) :
                              \A j \in DateCandidatesIn(ft.records[1]) : i <= j
                   D == RECALLS_DATE_FIELDS[first]
               IN  ft'.where_clause =
                     <<"soql",
                       << <<"upper(field) LIKE 'prefix%'", "manufacturer", Upper(fl.make)>>,
                          <<"field >= 'value'", D, fl.start>>,
                          <<"field <= 'value'", D, fl.end>> >> >>
     /\ (fl.pc = "fetch_recalls" /\ fl'.pc = "load_recalls") =>
          ld'[1].recs = Flatten(ft.pages)]_vars

\* C17 witness: the probe answered a record with `manufacturer` and
\* `report_receive_date`, and the full fetch has sent its second request
\* with the filter on these two fields.
C17_Witness ==
  /\ fl.pc = "fetch_recalls"
  /\ Len(http) = 3
  /\ http[1].where = NONE
  /\ http[3].offset = PAGE_SIZE
  /\ http[3].where[2][1][2] = "manufacturer"
  /\ Len(http[3].where[2]) = 3
  /\ http[3].where[2][2][2] = "report_receive_date"

\* A call of load_recalls or load_complaints has a connection with an open
\* transaction.
StoreBusy(f) == f.pc \in {"execute", "commit"}

\* Line reports the end of the recall upsert.
IsRecallUpsertLine(line) ==
  \/ line[1] = "Upserted rows into" /\ line[3] = "raw.recalls"
  \/ line = <<"No rows to upsert into", "raw.recalls">>

\* C15.  Strict pipeline order within a run: a step that starts the mapping
\* and upsert of the recalls is taken when the full fetch has returned after
\* its empty last page, and hands on exactly the records of its pages; a
\* step that sends the complaint request, or starts the mapping and upsert
\* of the complaints, is taken after the recall upsert has ended with its
\* commit reported, and the complaints are mapped only once their request
\* is answered; a step that sends a request finds no call at work on the
\* store, a step of the store sends no request and finds no fetch paging.
C15_StrictPipelineOrder ==
  [][/\ (ld[1].pc = "idle" /\ ld'[1].pc # "idle" /\ ld'[1].tab = "raw.recalls") =>
          /\ ft.pc = "returned"
          /\ ft.max_pages = NULL
          /\ ft.pages # <<>> /\ ft.pages[Len(ft.pages)] = <<>>
          /\ ld'[1].recs = Flatten(ft.pages)
          /\ \A i \in 1..Len(http) : http[i].api = "socrata"
     /\ (Len(http') > Len(http) /\ http'[Len(http')].api = "nhtsa") =>
          /\ ld[1].pc = "idle"
          /\ \E i \in 1..Len(out[1]) : IsRecallUpsertLine(out[1][i])
          /\ ft.pc = "idle"
     /\ (ld'[1].pc # "idle" /\ ld'[1].tab = "raw.complaints") =>
          /\ http'[Len(http')].api = "nhtsa"
          /\ \E i \in 1..Len(out[1]) : IsRecallUpsertLine(out[1][i])
          /\ \E i \in 1..Len(out'[1]) :
               out'[1][i] = <<"Fetched NHTSA complaint records", Len(ld'[1].recs)>>
     /\ Len(http') > Len(http) => ~ StoreBusy(ld[1]) /\ ~ StoreBusy(ld'[1])
     /\ ld'[1].io # ld[1].io => http' = http /\ ft.pc # "loop"
     /\ ~ (StoreBusy(ld[1]) /\ ft.pc = "loop")]_vars

\* C15 witness: the run has sent the probe, the full fetch and the complaint
\* request, and the upsert of the complaints is executing.
C15_Witness ==
  /\ fl.pc = "load_complaints"
  /\ ld[1].pc = "execute"
  /\ ld[1].tab = "raw.complaints"
  /\ Len(http) >= 4
  /\ table["raw.recalls"] # {}

-----------------------------------------------------------------------------
(* A run of the flow against a store that earlier runs have written        *)

\* What earlier runs may have left in the store: nothing, or one row in each
\* table, written while the clock showed 0.
PriorTables ==
  {[t \in TableNames |-> {}],
   [t \in TableNames |->
      IF t = "raw.recalls" THEN {Value(MappedRow[t][R_id7_c][0])}
      ELSE {Value(MappedRow[t][C_id7_2024][0])}]}

InitRuns ==
  /\ now = 0
  /\ mcat = "recall" /\ mrec = <<>> /\ mkey = NONE /\ mrow = NONE
  /\ table \in PriorTables
  /\ ld = [p \in {1} |-> IdleFrame]
  /\ out = [p \in {1} |-> <<>>]
  /\ lastWritten =
       [t \in TableNames |->
          [k \in KeysIn(table[t], ConflictCol(t)) |->
             CHOOSE y \in table[t] : y[ConflictCol(t)] = k]]
  /\ FetchIdle
  /\ fl = [IdleFlow EXCEPT !.pc = "start"]
  /\ env = [n \in EnvNames |-> NONE]

SpecRuns == InitRuns /\ [][Next]_vars

\* C13.  No deletion and no cross-category damage: no step of a run,
\* successful or failed, removes an identity key from a table; a step that
\* changes a table is the commit of an upsert into that table and leaves the
\* other table as it was; and from the return of the recall upsert to the
\* end of the run, whether the complaint fetch or the complaint upsert fails
\* or not, the recalls table stays as it is and holds the rows the run
\* committed.
C13_NoDeletionNoCrossDamage ==
  [][/\ \A t \in TableNames :
          /\ KeysIn(table[t], ConflictCol(t)) \subseteq KeysIn(table'[t], ConflictCol(t))
          /\ table'[t] # table[t] =>
               /\ \E p \in DOMAIN ld : ld[p].tab = t /\ ld[p].pc = "commit"
               /\ \A u \in TableNames \ {t} : table'[u] = table[u]
     /\ fl.pc \in {"complaints", "load_complaints"} =>
          /\ table'["raw.recalls"] = table["raw.recalls"]
          /\ \A k \in DOMAIN lastWritten["raw.recalls"] :
               lastWritten["raw.recalls"][k] \in table'["raw.recalls"]]_vars

\* C13 witness: a run against a store with earlier rows committed recalls
\* and then failed in the complaint upsert; the recalls table holds two rows.
C13_Witness ==
  /\ fl.pc = "exit1"
  /\ Len(fl.steps) = 3
  /\ fl.steps[2][2] > 0
  /\ Cardinality(table["raw.recalls"]) = 2
  /\ table["raw.complaints"] # {}

=============================================================================
